---- MODULE Spec2Model ----
(***************************************************************************)
(* Model of the weaving-test capture-and-measurement core.                 *)
(*                                                                         *)
(*   - CamerasController (hardware_controllers/cameras_controller):        *)
(*     readiness flag, selected light type, one pictures-available Event   *)
(*     per light type and the three locks, with every method cut into the  *)
(*     steps at which other threads can interleave.                        *)
(*   - SurfaceMovementService.run (weaving_app/services/surface.py): the   *)
(*     displacement accumulator of the surface loop.                       *)
(*                                                                         *)
(* Specifications:                                                         *)
(*   Spec         one caller thread drives the controller (the pictures    *)
(*                worker, the example program, a test harness)             *)
(*   SpecThreads  NumThreads threads call the controller concurrently      *)
(*   SpecSurface  the surface loop                                         *)
(***************************************************************************)
EXTENDS Integers, Sequences, FiniteSets, TLC

\* ------------------------------------------------------------------ bounds
\* Number of threads that call one controller concurrently (SpecThreads).
NumThreads == 2

\* Number of image files that may be absent from the pictures directory.
MaxMissing == 1

\* Number of samples the velocity queue holds at most (queue.Queue() itself
\* is unbounded).
MaxQueue == 4

\* Number of cycles the surface loop runs (`while True` itself never ends).
MaxCycles == 2

\* --------------------------------------------------------------- constants
Threads == 1 .. NumThreads

\* The single caller of Spec.
MainThread == 1

\* A lock that no thread holds.
NoThread == 0

\* LightType.GREEN, LightType.BLUE; None is the unset `_light_type`.
LightType == {"BLUE", "GREEN"}

None == "None"

\* CameraPosition.LEFT, CameraPosition.RIGHT
CameraPosition == {"LEFT", "RIGHT"}

\* The files `<position>_picture_<light>.jpg` the retriever can ask for.
PictureFiles == LightType \X CameraPosition

\* Outcomes of a call: a normal return or the exception raised.
OK == "ok"

Errors ==
  { "CamerasNotReadyError", "LightTypeNotDefinedError", "TriggerFailedError",
    "PicturesNotAvailableError", "PictureNotFoundError" }

\* The calls the scenario of example/weaving_analyzer.py makes, in order.
ScenarioCalls ==
  << <<"open_cameras", None>>,
     <<"set_light_type", "BLUE">>, <<"trigger", None>>,
     <<"set_light_type", "GREEN">>, <<"trigger", None>>,
     <<"collect_pictures", "BLUE">>, <<"collect_pictures", "GREEN">> >>

\* Mutant: each light type is collected right after its trigger.
TakePicturesCalls_interleaved ==
  << <<"open_cameras", None>>,
     <<"set_light_type", "BLUE">>, <<"trigger", None>>,
     <<"collect_pictures", "BLUE">>,
     <<"set_light_type", "GREEN">>, <<"trigger", None>>,
     <<"collect_pictures", "GREEN">> >>

\* The calls PicturesBatchService.take_pictures makes, in order.
TakePicturesCalls ==
  << <<"open_cameras", None>>,
     <<"set_light_type", "BLUE">>, <<"trigger", None>>,
     <<"set_light_type", "GREEN">>, <<"trigger", None>>,
     <<"collect_pictures", "BLUE">>, <<"collect_pictures", "GREEN">> >>

\* ----------------------------------------------------------------- numbers
\* Python floats are modelled as exact rationals [n |-> numerator,
\* d |-> denominator > 0] in lowest terms; NaN is the only other float.
Abs(i) == IF i < 0 THEN -i ELSE i

RECURSIVE GCD(_, _)
GCD(a, b) == IF b = 0 THEN a ELSE GCD(b, a % b)

Rat(num, den) ==
  LET g == GCD(Abs(num), den)
  IN  IF num = 0 THEN [n |-> 0, d |-> 1] ELSE [n |-> num \div g, d |-> den \div g]

Float(i) == Rat(i, 1)

RAdd(x, y) == Rat(x.n * y.d + y.n * x.d, x.d * y.d)

RSub(x, y) == Rat(x.n * y.d - y.n * x.d, x.d * y.d)

RMul(x, y) == Rat(x.n * y.n, x.d * y.d)

\* x / k for an integer k > 0
RDiv(x, k) == Rat(x.n, x.d * k)

RLt(x, y) == x.n * y.d < y.n * x.d

RLe(x, y) == x.n * y.d <= y.n * x.d

RFloor(x) == x.n \div x.d

RECURSIVE RSum(_)
RSum(xs) == IF xs = << >> THEN Float(0) ELSE RAdd(Head(xs), RSum(Tail(xs)))

NaN == [n |-> 0, d |-> 0]

\* --------------------------------------------------- application constants
\* VelocitySensorService.SAMPLE_RATE, Hz
SAMPLE_RATE == 50

\* SurfaceMovementService.CAMERA_VERTICAL_FIELD_OF_VIEW, cm
CAMERA_VERTICAL_FIELD_OF_VIEW == 25

\* SurfaceMovementService.DISPLACEMENT_THRESHOLD = field of view * 0.9, cm
DISPLACEMENT_THRESHOLD == RMul(Float(CAMERA_VERTICAL_FIELD_OF_VIEW), Rat(9, 10))

\* SurfaceMovementService.MOVING_AVERAGE_FILTER_WINDOW_SIZE
MOVING_AVERAGE_FILTER_WINDOW_SIZE == 3

\* The velocities (cm/min) the sensor reports in the model; with a handful of
\* samples per cycle it takes fast fabric to cross the threshold.  Four samples
\* of which two are of each kind make a cycle of 30 cm (the window holds the
\* higher one twice) or of -7.5 cm (the lower one twice).
Velocities == { Float(-33750), Float(50625) }

\* The values weaving_app/tests.py passes, and an outlier among them.
TestValues ==
  { Float(-10), Float(0), Float(10), Float(20), Float(30), Float(100) }

\* The lists of at most n elements of S.
BoundedSeq(S, n) == UNION { [1 .. k -> S] : k \in 0 .. n }

\* Lists as long as a drain of the velocity queue can make them.
TestLists == BoundedSeq(TestValues, MaxQueue)

\* test_measure_displacement: velocity 50.0, 100 samples; and smaller cases.
TestVelocities == TestValues \cup { Float(50) }

TestSamples == (0 .. MaxQueue) \cup { 100 }

\* What `session.post` can come to: the status of the response, or the
\* delivery collaborator not being reachable (aiohttp raises).
PostOutcomes == { "201", "500", "unreachable" }

VARIABLES
  \* CamerasController fields
  cameras_ready,        \* _cameras_ready
  cameras_ready_lock,   \* holder of _cameras_ready_lock, or NoThread
  global_trigger_lock,  \* holder of _global_trigger_lock, or NoThread
  light_type,           \* _light_type
  light_type_lock,      \* holder of _light_type_lock, or NoThread
  pictures_available,   \* the Events _blue/_green_pictures_available
  pictures_dir,         \* the image files present on disk
  \* threads calling the controller
  pc,                   \* position of each thread ("idle": not in a call)
  arg,                  \* the light_type argument of the call in progress
  event,                \* local `pictures_available` of trigger/_get_pictures
  result,               \* outcome of the thread's last completed call
  \* PicturesBatchService
  pictures_run,         \* position of the pictures worker in run(), the calls
                        \* of take_pictures done, the local `surface_data`
  \* the queues of the application
  velocity_queue,       \* VelocitySensorService.queue
  surface_queue,        \* SurfaceMovementService.surface_queue
  \* SurfaceMovementService
  displacement_to_threshold,
  surface_pc,           \* position of the surface worker in run()
  samples,              \* local `samples` of get_clean_velocity_data
  raw_velocities,       \* local `raw_velocities`
  velocities,           \* local `velocities` of run()
  surface_data,         \* local `surface_data` of run()
  cycles,               \* iterations of run() begun so far
  \* a direct call of one of the static methods of SurfaceMovementService
  test,                 \* the function, its arguments and what it returned
  \* observers (history, written by no method)
  pre,                  \* Spec: the controller as the caller's call began
  scenario,             \* Spec: how far the calls so far follow ScenarioCalls
  outstanding,          \* successful triggers minus successful collects
  selections,           \* SpecDrivers: the light type MainThread selected
                        \* last, whether no other thread has selected
                        \* since, and the flag its last trigger set
  deliveries,           \* SpecPictures: the requests queued at the start,
                        \* those taken, the capture sequences begun and
                        \* completed, and the batches delivered
  cycle,                \* the remainder right after the last subtraction,
                        \* and the requests put on surface_queue since
  totals,               \* the displacements subtracted and the requests put
                        \* by the surface loop since it started
  fifo                  \* the samples by serial number: how many were put,
                        \* which are queued, which the current cycle took,
                        \* and whether those it took are all of one value

ctrl_vars ==
  << cameras_ready, cameras_ready_lock, global_trigger_lock, light_type,
     light_type_lock, pictures_available, pictures_dir >>

thread_vars == << pc, arg, event, result >>

obs_vars == << pre, scenario, outstanding, selections, deliveries >>

\* Everything of the controller and its callers.
cameras_vars == << ctrl_vars, thread_vars, obs_vars, pictures_run >>

queue_vars == << velocity_queue, surface_queue >>

surface_vars ==
  << displacement_to_threshold, surface_pc, samples, raw_velocities,
     velocities, surface_data, cycles, cycle, totals >>

vars == << cameras_vars, queue_vars, surface_vars, test, fifo >>

\* ------------------------------------------------------------------- Init
\* CamerasController.__init__
InitController ==
  /\ cameras_ready = FALSE
  /\ cameras_ready_lock = NoThread
  /\ global_trigger_lock = NoThread
  /\ light_type = None
  /\ light_type_lock = NoThread
  /\ pictures_available = [l \in LightType |-> FALSE]

\* The pictures directory next to the module: all files, or some absent.
InitPicturesDir ==
  pictures_dir \in
    { d \in SUBSET PictureFiles : Cardinality(PictureFiles \ d) <= MaxMissing }

InitThreads ==
  /\ pc = [t \in Threads |-> "idle"]
  /\ arg = [t \in Threads |-> None]
  /\ event = [t \in Threads |-> None]
  /\ result = [t \in Threads |-> None]

\* No call made yet.
NoCall ==
  [ op |-> None, arg |-> None, cameras_ready |-> FALSE, light_type |-> None,
    pictures_available |-> [l \in LightType |-> FALSE],
    prev_op |-> None, prev_result |-> None ]

\* The value of `pre` when calls are not recorded (several callers).
Untracked == [ op |-> "untracked" ]

\* The value of `scenario` once the calls have left ScenarioCalls.
OffScenario == Len(ScenarioCalls) + 1

\* The two queue.Queue() objects handed to the services, empty.
InitQueues ==
  /\ velocity_queue = << >>
  /\ surface_queue = << >>

NoData == [ velocity |-> Float(0), displacement |-> Float(0) ]

\* The callers of the controller are not a PicturesBatchService.
NoWorker == [ pc |-> "off", calls |-> 0, surface_data |-> NoData ]

\* No static method called directly.
NoTest ==
  [ function |-> None, data |-> << >>, velocity |-> Float(0), samples |-> 0,
    done |-> FALSE, returned_list |-> << >>, returned_float |-> Float(0) ]

\* No cycle begun yet.
NoCycle == [ after |-> DISPLACEMENT_THRESHOLD, puts |-> 0 ]

\* No sample put yet.
NoSamples ==
  [ put |-> 0, got |-> 0, queued |-> << >>, drained |-> << >>,
    equal |-> TRUE ]

\* Nothing subtracted and nothing requested yet.
NoTotals == [ displacement |-> Float(0), requests |-> 0 ]

\* SurfaceMovementService.__init__, and run() about to begin its first cycle.
InitSurface ==
  /\ displacement_to_threshold = DISPLACEMENT_THRESHOLD
  /\ surface_pc = "qsize"
  /\ samples = 0
  /\ raw_velocities = << >>
  /\ velocities = << >>
  /\ surface_data = NoData
  /\ cycles = 1
  /\ cycle = NoCycle
  /\ totals = NoTotals
  /\ fifo = NoSamples

InitApp ==
  /\ InitController /\ InitThreads
  /\ InitQueues /\ InitSurface
  /\ outstanding = [l \in LightType |-> 0]

\* No selection is recorded.
NoSelections ==
  [ on |-> FALSE, own |-> None, last |-> FALSE, flag |-> None ]

\* No request, capture sequence or delivery is recorded.
NoDeliveries ==
  [ on |-> FALSE, requested |-> << >>, taken |-> << >>, begun |-> 0,
    captured |-> 0, posted |-> << >> ]

\* One caller of the controller, its calls recorded.
Init ==
  /\ InitApp /\ InitPicturesDir
  /\ test = NoTest
  /\ pictures_run = NoWorker
  /\ selections = NoSelections
  /\ deliveries = NoDeliveries
  /\ pre = NoCall
  /\ scenario = 0

\* Several callers of the controller, no call recorded.
InitConcurrent ==
  /\ InitApp /\ InitPicturesDir
  /\ test = NoTest
  /\ pictures_run = NoWorker
  /\ selections = NoSelections
  /\ deliveries = NoDeliveries
  /\ pre = Untracked
  /\ scenario = OffScenario

\* Several callers of the controller, the pictures directory complete or
\* without one file of BLUE: collect_pictures leaves by return and by raise.
InitContended ==
  /\ InitApp
  /\ pictures_dir \in { PictureFiles, PictureFiles \ { <<"BLUE", "LEFT">> } }
  /\ test = NoTest
  /\ pictures_run = NoWorker
  /\ selections = NoSelections
  /\ deliveries = NoDeliveries
  /\ pre = Untracked
  /\ scenario = OffScenario

\* The velocity and surface workers; the controller idle, its pictures
\* directory as the repository ships it.
InitWorkers ==
  /\ InitApp
  /\ pictures_dir = PictureFiles
  /\ test = NoTest
  /\ pictures_run = NoWorker
  /\ selections = NoSelections
  /\ deliveries = NoDeliveries
  /\ pre = Untracked
  /\ scenario = OffScenario

\* One static method of SurfaceMovementService is about to be called with
\* arguments of the test module's kind; no thread runs.
InitTests ==
  /\ InitApp
  /\ pictures_dir = PictureFiles
  /\ pictures_run = NoWorker
  /\ selections = NoSelections
  /\ deliveries = NoDeliveries
  /\ pre = Untracked
  /\ scenario = OffScenario
  /\ test \in
       { [NoTest EXCEPT !.function = f, !.data = data] :
           f \in {"measure_velocity", "filter_moving_average"},
           data \in TestLists }
       \cup
       { [NoTest EXCEPT !.function = "filter_outliers_iqr", !.data = data] :
           data \in TestLists \ { << >> } }
       \cup
       { [NoTest EXCEPT !.function = "measure_displacement",
                        !.velocity = velocity, !.samples = n] :
           velocity \in TestVelocities, n \in TestSamples }

\* Capture requests: of a cycle of 30 cm, and of one twice as fast.
Requests ==
  { [ velocity |-> Float(22500), displacement |-> Float(30) ],
    [ velocity |-> Float(45000), displacement |-> Float(60) ] }

\* PicturesBatchService.__init__ and run() about to poll the queue, on which
\* the surface loop has put a request for some of its cycles already; the
\* worker's own controller is fresh and it is the only caller.
InitPictures ==
  /\ InitController /\ InitThreads /\ InitSurface /\ InitPicturesDir
  /\ outstanding = [l \in LightType |-> 0]
  /\ velocity_queue = << >>
  /\ surface_queue \in BoundedSeq(Requests, MaxCycles)
  /\ test = NoTest
  /\ pictures_run = [ pc |-> "empty", calls |-> 0, surface_data |-> NoData ]
  /\ pre = NoCall
  /\ scenario = 0
  /\ selections = NoSelections
  /\ deliveries = [NoDeliveries EXCEPT !.on = TRUE, !.requested = surface_queue]

\* Several callers of the controller with every image file on disk, the
\* selections recorded.
InitDrivers ==
  /\ InitApp
  /\ pictures_dir = PictureFiles
  /\ test = NoTest
  /\ pictures_run = NoWorker
  /\ pre = Untracked
  /\ scenario = OffScenario
  /\ selections = [NoSelections EXCEPT !.on = TRUE]
  /\ deliveries = NoDeliveries

\* --------------------------------------------------------------- observers
\* The method a thread is in, from its position.
OpAt(label) ==
  CASE label \in {"open_acquire", "open_sleep"} -> "open_cameras"
    [] label \in {"set_ready", "set_acquire", "set_write"} -> "set_light_type"
    [] label \in {"trigger_ready", "trigger_acquire_global",
                  "trigger_acquire_light", "trigger_get_event",
                  "trigger_set"} -> "trigger"
    [] label \in {"collect_ready", "collect_acquire", "collect_get_event",
                  "collect_get_picture", "collect_clear"} -> "collect_pictures"
    [] OTHER -> None

\* The controller at the moment the caller's call begins, and what the call
\* before it was and how it ended.
ObservePre(t, label, light) ==
  pre' =
    IF pre = Untracked
      THEN pre
      ELSE [ op |-> OpAt(label), arg |-> light,
             cameras_ready |-> cameras_ready, light_type |-> light_type,
             pictures_available |-> pictures_available,
             prev_op |-> pre.op, prev_result |-> result[t] ]

\* scenario = k: the calls completed on the fresh controller are exactly the
\* first k calls of ScenarioCalls; OffScenario once they are not.
ObserveScenario(t) ==
  scenario' =
    IF /\ scenario < Len(ScenarioCalls)
       /\ << pre.op, pre.arg >> = ScenarioCalls[scenario + 1]
      THEN scenario + 1
      ELSE OffScenario

\* Successful triggers minus successful collects, per light type: counted
\* when the call returns OK, for the light type whose Event it acted on.
ObserveOutstanding(t, outcome) ==
  outstanding' =
    IF outcome = OK /\ pc[t] = "trigger_set"
      THEN [outstanding EXCEPT ![event[t]] = @ + 1]
    ELSE IF outcome = OK /\ pc[t] = "collect_clear"
      THEN [outstanding EXCEPT ![event[t]] = @ - 1]
    ELSE outstanding

\* What the driver MainThread selected last, whether its selection is the
\* last one written by any thread, and the flag its last successful trigger
\* set.
ObserveSelection(t, outcome) ==
  selections' =
    IF ~selections.on \/ outcome # OK THEN selections
    ELSE IF pc[t] = "set_write"
      THEN IF t = MainThread
             THEN [selections EXCEPT !.own = arg[t], !.last = TRUE]
             ELSE [selections EXCEPT !.last = FALSE]
    ELSE IF pc[t] = "trigger_set" /\ t = MainThread
      THEN [selections EXCEPT !.flag = event[t]]
    ELSE selections

\* A capture sequence has begun when its open_cameras returned, and is
\* completed when its last collect_pictures returned.
ObserveSequence(t, outcome) ==
  deliveries' =
    IF deliveries.on /\ outcome = OK /\ pc[t] = "open_sleep"
      THEN [deliveries EXCEPT !.begun = @ + 1]
    ELSE IF /\ deliveries.on /\ outcome = OK /\ pc[t] = "collect_clear"
            /\ pictures_run.calls + 1 = Len(TakePicturesCalls)
      THEN [deliveries EXCEPT !.captured = @ + 1]
    ELSE deliveries

\* ------------------------------------------------------- thread bookkeeping
\* Every step of a controller method moves its thread; the surface worker
\* and the queues are none of the controller's business.
Goto(t, label) ==
  /\ pc' = [pc EXCEPT ![t] = label]
  /\ UNCHANGED << queue_vars, surface_vars, test, fifo >>

\* take_pictures makes its calls in order; any other caller calls what it
\* likes.
CallAllowed(label, light) ==
  \/ pictures_run.pc = "off"
  \/ /\ pictures_run.pc = "take_pictures"
     /\ << OpAt(label), light >> = TakePicturesCalls[pictures_run.calls + 1]

\* run() and take_pictures have no `try`: an exception of the controller
\* leaves both and ends the thread; after the last call the pictures are
\* returned, `self.queue.task_done()` is called and the batch is to be posted.
AfterCall(outcome) ==
  IF pictures_run.pc = "off" THEN pictures_run
  ELSE IF outcome # OK THEN [pictures_run EXCEPT !.pc = "crashed"]
  ELSE IF pictures_run.calls + 1 = Len(TakePicturesCalls)
    THEN [pictures_run EXCEPT !.pc = "post", !.calls = 0]
  ELSE [pictures_run EXCEPT !.calls = @ + 1]

\* A thread enters a method: the call is in progress, no outcome yet.
Enter(t, label, light) ==
  /\ pc[t] = "idle"
  /\ CallAllowed(label, light)
  /\ UNCHANGED pictures_run
  /\ Goto(t, label)
  /\ arg' = [arg EXCEPT ![t] = light]
  /\ event' = [event EXCEPT ![t] = None]
  /\ result' = [result EXCEPT ![t] = None]
  /\ ObservePre(t, label, light)
  /\ UNCHANGED << scenario, outstanding, selections, deliveries >>

\* The method returns normally or raises `outcome`; its locals are gone.
Leave(t, outcome) ==
  /\ Goto(t, "idle")
  /\ arg' = [arg EXCEPT ![t] = None]
  /\ event' = [event EXCEPT ![t] = None]
  /\ result' = [result EXCEPT ![t] = outcome]
  /\ pictures_run' = AfterCall(outcome)
  /\ ObserveScenario(t)
  /\ ObserveOutstanding(t, outcome)
  /\ ObserveSelection(t, outcome)
  /\ ObserveSequence(t, outcome)
  /\ UNCHANGED pre

\* The method goes on at `label`.
Stay(t, label) ==
  /\ Goto(t, label)
  /\ UNCHANGED << arg, event, result, obs_vars, pictures_run >>

\* ------------------------------------------------------------ open_cameras
open_cameras_call(t) ==
  /\ Enter(t, "open_acquire", None)
  /\ UNCHANGED ctrl_vars

\* Mutant: opening marks the cameras not ready until the sleep is over.
open_cameras_acquire_reset(t) ==
  /\ pc[t] = "open_acquire"
  /\ cameras_ready_lock = NoThread
  /\ cameras_ready_lock' = t
  /\ cameras_ready' = FALSE
  /\ Stay(t, "open_sleep")
  /\ UNCHANGED << global_trigger_lock, light_type, light_type_lock,
                  pictures_available, pictures_dir >>

\* `with self._cameras_ready_lock:` - blocks while another thread holds it.
open_cameras_acquire(t) ==
  /\ pc[t] = "open_acquire"
  /\ cameras_ready_lock = NoThread
  /\ cameras_ready_lock' = t
  /\ Stay(t, "open_sleep")
  /\ UNCHANGED << cameras_ready, global_trigger_lock, light_type,
                  light_type_lock, pictures_available, pictures_dir >>

\* The sleep ends; `self._cameras_ready = True`; the lock is released.
open_cameras_set_ready(t) ==
  /\ pc[t] = "open_sleep"
  /\ cameras_ready' = TRUE
  /\ cameras_ready_lock' = NoThread
  /\ Leave(t, OK)
  /\ UNCHANGED << global_trigger_lock, light_type, light_type_lock,
                  pictures_available, pictures_dir >>

open_cameras(t) ==
  \/ open_cameras_call(t)
  \/ open_cameras_acquire(t)
  \/ open_cameras_set_ready(t)

\* Mutant: the readiness flag is not consulted.
raise_on_cameras_not_ready_skipped(t, label) ==
  /\ cameras_ready_lock = NoThread
  /\ Stay(t, label)
  /\ UNCHANGED ctrl_vars

\* Mutant: the flag is read without taking the readiness lock.
raise_on_cameras_not_ready_unlocked(t, label) ==
  /\ IF cameras_ready
       THEN Stay(t, label)
       ELSE Leave(t, "CamerasNotReadyError")
  /\ UNCHANGED ctrl_vars

\* ------------------------------------------- _raise_on_cameras_not_ready
\* Takes the readiness lock, reads the flag and releases the lock again: one
\* step, possible only while no thread holds the lock.  Control goes on at
\* `label` or the method raises CamerasNotReadyError.
raise_on_cameras_not_ready(t, label) ==
  /\ cameras_ready_lock = NoThread
  /\ IF cameras_ready
       THEN Stay(t, label)
       ELSE Leave(t, "CamerasNotReadyError")
  /\ UNCHANGED ctrl_vars

\* ------------------------------- _get_pictures_available_event_by_light_type
\* TRUE when an Event exists for the light type; else LightTypeNotDefinedError.
LightTypeDefined(light) == light \in LightType

\* ---------------------------------------------------------- set_light_type
set_light_type_call(t) ==
  /\ \E light \in LightType : Enter(t, "set_ready", light)
  /\ UNCHANGED ctrl_vars

set_light_type_ready(t) ==
  /\ pc[t] = "set_ready"
  /\ raise_on_cameras_not_ready(t, "set_acquire")

set_light_type_acquire(t) ==
  /\ pc[t] = "set_acquire"
  /\ light_type_lock = NoThread
  /\ light_type_lock' = t
  /\ Stay(t, "set_write")
  /\ UNCHANGED << cameras_ready, cameras_ready_lock, global_trigger_lock,
                  light_type, pictures_available, pictures_dir >>

\* Mutant: selecting a light type also resets its Event.
set_light_type_write_reset(t) ==
  /\ pc[t] = "set_write"
  /\ light_type' = arg[t]
  /\ pictures_available' = [pictures_available EXCEPT ![arg[t]] = FALSE]
  /\ light_type_lock' = NoThread
  /\ Leave(t, OK)
  /\ UNCHANGED << cameras_ready, cameras_ready_lock, global_trigger_lock,
                  pictures_dir >>

set_light_type_write(t) ==
  /\ pc[t] = "set_write"
  /\ light_type' = arg[t]
  /\ light_type_lock' = NoThread
  /\ Leave(t, OK)
  /\ UNCHANGED << cameras_ready, cameras_ready_lock, global_trigger_lock,
                  pictures_available, pictures_dir >>

set_light_type(t) ==
  \/ set_light_type_call(t)
  \/ set_light_type_ready(t)
  \/ set_light_type_acquire(t)
  \/ set_light_type_write(t)

\* ----------------------------------------------------------------- trigger
trigger_call(t) ==
  /\ Enter(t, "trigger_ready", None)
  /\ UNCHANGED ctrl_vars

trigger_ready(t) ==
  /\ pc[t] = "trigger_ready"
  /\ raise_on_cameras_not_ready(t, "trigger_acquire_global")

trigger_acquire_global(t) ==
  /\ pc[t] = "trigger_acquire_global"
  /\ global_trigger_lock = NoThread
  /\ global_trigger_lock' = t
  /\ Stay(t, "trigger_acquire_light")
  /\ UNCHANGED << cameras_ready, cameras_ready_lock, light_type,
                  light_type_lock, pictures_available, pictures_dir >>

\* Mutant: the light type is read without taking its lock.
trigger_acquire_light_unlocked(t) ==
  /\ pc[t] = "trigger_acquire_light"
  /\ Stay(t, "trigger_get_event")
  /\ UNCHANGED ctrl_vars

\* `with self._light_type_lock:` inside the global trigger lock.
trigger_acquire_light(t) ==
  /\ pc[t] = "trigger_acquire_light"
  /\ light_type_lock = NoThread
  /\ light_type_lock' = t
  /\ Stay(t, "trigger_get_event")
  /\ UNCHANGED << cameras_ready, cameras_ready_lock, global_trigger_lock,
                  light_type, pictures_available, pictures_dir >>

\* Mutant: the Event is set without testing it first.
trigger_get_event_unchecked(t) ==
  /\ pc[t] = "trigger_get_event"
  /\ IF ~LightTypeDefined(light_type)
       THEN /\ Leave(t, "LightTypeNotDefinedError")
            /\ global_trigger_lock' = NoThread
            /\ light_type_lock' = NoThread
       ELSE /\ Goto(t, "trigger_set")
            /\ event' = [event EXCEPT ![t] = light_type]
            /\ UNCHANGED << arg, result, obs_vars, pictures_run,
                            global_trigger_lock, light_type_lock >>
  /\ UNCHANGED << cameras_ready, cameras_ready_lock, light_type,
                  pictures_available, pictures_dir >>

\* Mutant: one pending flag for the whole rig - the trigger is refused while
\* the pictures of any light type are pending.
trigger_get_event_any(t) ==
  /\ pc[t] = "trigger_get_event"
  /\ IF ~LightTypeDefined(light_type)
       THEN /\ Leave(t, "LightTypeNotDefinedError")
            /\ global_trigger_lock' = NoThread
            /\ light_type_lock' = NoThread
       ELSE IF \E l \in LightType : pictures_available[l]
         THEN /\ Leave(t, "TriggerFailedError")
              /\ global_trigger_lock' = NoThread
              /\ light_type_lock' = NoThread
         ELSE /\ Goto(t, "trigger_set")
              /\ event' = [event EXCEPT ![t] = light_type]
              /\ UNCHANGED << arg, result, obs_vars, pictures_run,
                              global_trigger_lock, light_type_lock >>
  /\ UNCHANGED << cameras_ready, cameras_ready_lock, light_type,
                  pictures_available, pictures_dir >>

\* Mutant: the locks are taken and released by hand, and the refusal returns
\* without releasing the light-type lock.
trigger_get_event_leaky(t) ==
  /\ pc[t] = "trigger_get_event"
  /\ IF ~LightTypeDefined(light_type)
       THEN /\ Leave(t, "LightTypeNotDefinedError")
            /\ global_trigger_lock' = NoThread
            /\ light_type_lock' = NoThread
       ELSE IF pictures_available[light_type]
         THEN /\ Leave(t, "TriggerFailedError")
              /\ global_trigger_lock' = NoThread
              /\ UNCHANGED light_type_lock
         ELSE /\ Goto(t, "trigger_set")
              /\ event' = [event EXCEPT ![t] = light_type]
              /\ UNCHANGED << arg, result, obs_vars, pictures_run,
                              global_trigger_lock, light_type_lock >>
  /\ UNCHANGED << cameras_ready, cameras_ready_lock, light_type,
                  pictures_available, pictures_dir >>

\* Mutant: the locks are taken and released by hand, and the trigger with no
\* light type selected raises without releasing the global trigger lock.
trigger_get_event_held(t) ==
  /\ pc[t] = "trigger_get_event"
  /\ IF ~LightTypeDefined(light_type)
       THEN /\ Leave(t, "LightTypeNotDefinedError")
            /\ UNCHANGED global_trigger_lock
            /\ light_type_lock' = NoThread
       ELSE IF pictures_available[light_type]
         THEN /\ Leave(t, "TriggerFailedError")
              /\ global_trigger_lock' = NoThread
              /\ light_type_lock' = NoThread
         ELSE /\ Goto(t, "trigger_set")
              /\ event' = [event EXCEPT ![t] = light_type]
              /\ UNCHANGED << arg, result, obs_vars, pictures_run,
                              global_trigger_lock, light_type_lock >>
  /\ UNCHANGED << cameras_ready, cameras_ready_lock, light_type,
                  pictures_available, pictures_dir >>

\* Under both locks: fetch the Event of the current light type and test it.
\* Either exception leaves both `with` blocks, which releases both locks.
trigger_get_event(t) ==
  /\ pc[t] = "trigger_get_event"
  /\ IF ~LightTypeDefined(light_type)
       THEN /\ Leave(t, "LightTypeNotDefinedError")
            /\ global_trigger_lock' = NoThread
            /\ light_type_lock' = NoThread
       ELSE IF pictures_available[light_type]
         THEN /\ Leave(t, "TriggerFailedError")
              /\ global_trigger_lock' = NoThread
              /\ light_type_lock' = NoThread
         ELSE /\ Goto(t, "trigger_set")
              /\ event' = [event EXCEPT ![t] = light_type]
              /\ UNCHANGED << arg, result, obs_vars, pictures_run,
                              global_trigger_lock, light_type_lock >>
  /\ UNCHANGED << cameras_ready, cameras_ready_lock, light_type,
                  pictures_available, pictures_dir >>

\* `pictures_available.set()`, then both locks are released.
trigger_set(t) ==
  /\ pc[t] = "trigger_set"
  /\ pictures_available' = [pictures_available EXCEPT ![event[t]] = TRUE]
  /\ global_trigger_lock' = NoThread
  /\ light_type_lock' = NoThread
  /\ Leave(t, OK)
  /\ UNCHANGED << cameras_ready, cameras_ready_lock, light_type,
                  pictures_dir >>

trigger(t) ==
  \/ trigger_call(t)
  \/ trigger_ready(t)
  \/ trigger_acquire_global(t)
  \/ trigger_acquire_light(t)
  \/ trigger_get_event(t)
  \/ trigger_set(t)

\* -------------------------------------------- collect_pictures, _get_pictures
collect_pictures_call(t) ==
  /\ \E light \in LightType : Enter(t, "collect_ready", light)
  /\ UNCHANGED ctrl_vars

collect_pictures_ready(t) ==
  /\ pc[t] = "collect_ready"
  /\ raise_on_cameras_not_ready(t, "collect_acquire")

\* Mutant: _get_pictures runs without taking the light-type lock.
get_pictures_acquire_unlocked(t) ==
  /\ pc[t] = "collect_acquire"
  /\ Stay(t, "collect_get_event")
  /\ UNCHANGED ctrl_vars

get_pictures_acquire(t) ==
  /\ pc[t] = "collect_acquire"
  /\ light_type_lock = NoThread
  /\ light_type_lock' = t
  /\ Stay(t, "collect_get_event")
  /\ UNCHANGED << cameras_ready, cameras_ready_lock, global_trigger_lock,
                  light_type, pictures_available, pictures_dir >>

\* Mutant: the pictures are fetched without testing the Event.
get_pictures_get_event_unchecked(t) ==
  /\ pc[t] = "collect_get_event"
  /\ IF ~LightTypeDefined(arg[t])
       THEN /\ Leave(t, "LightTypeNotDefinedError")
            /\ light_type_lock' = NoThread
       ELSE /\ Goto(t, "collect_get_picture")
            /\ event' = [event EXCEPT ![t] = arg[t]]
            /\ UNCHANGED << arg, result, obs_vars, pictures_run,
                              light_type_lock >>
  /\ UNCHANGED << cameras_ready, cameras_ready_lock, global_trigger_lock,
                  light_type, pictures_available, pictures_dir >>

\* Mutant: the Event of the currently selected light type is used instead of
\* the Event of the argument.
get_pictures_get_event_current(t) ==
  /\ pc[t] = "collect_get_event"
  /\ IF ~LightTypeDefined(light_type)
       THEN /\ Leave(t, "LightTypeNotDefinedError")
            /\ light_type_lock' = NoThread
       ELSE IF ~pictures_available[light_type]
         THEN /\ Leave(t, "PicturesNotAvailableError")
              /\ light_type_lock' = NoThread
         ELSE /\ Goto(t, "collect_get_picture")
              /\ event' = [event EXCEPT ![t] = light_type]
              /\ UNCHANGED << arg, result, obs_vars, pictures_run,
                              light_type_lock >>
  /\ UNCHANGED << cameras_ready, cameras_ready_lock, global_trigger_lock,
                  light_type, pictures_available, pictures_dir >>

\* Under the light-type lock: fetch the Event of `light_type` (the argument)
\* and test it.
get_pictures_get_event(t) ==
  /\ pc[t] = "collect_get_event"
  /\ IF ~LightTypeDefined(arg[t])
       THEN /\ Leave(t, "LightTypeNotDefinedError")
            /\ light_type_lock' = NoThread
       ELSE IF ~pictures_available[arg[t]]
         THEN /\ Leave(t, "PicturesNotAvailableError")
              /\ light_type_lock' = NoThread
         ELSE /\ Goto(t, "collect_get_picture")
              /\ event' = [event EXCEPT ![t] = arg[t]]
              /\ UNCHANGED << arg, result, obs_vars, pictures_run,
                              light_type_lock >>
  /\ UNCHANGED << cameras_ready, cameras_ready_lock, global_trigger_lock,
                  light_type, pictures_available, pictures_dir >>

\* _create_picture_filepath: `filepath.is_file()` of one camera position.
PictureFound(light, position) == << light, position >> \in pictures_dir

\* Mutant: the Event is cleared before the files are looked for.
get_pictures_get_picture_cleared(t) ==
  /\ pc[t] = "collect_get_picture"
  /\ IF PictureFound(arg[t], "LEFT") /\ PictureFound(arg[t], "RIGHT")
       THEN /\ Stay(t, "collect_clear")
            /\ UNCHANGED << light_type_lock, pictures_available >>
       ELSE /\ Leave(t, "PictureNotFoundError")
            /\ light_type_lock' = NoThread
            /\ pictures_available' =
                 [pictures_available EXCEPT ![event[t]] = FALSE]
  /\ UNCHANGED << cameras_ready, cameras_ready_lock, global_trigger_lock,
                  light_type, pictures_dir >>

\* _get_picture for LEFT, then for RIGHT; a missing file raises
\* PictureNotFoundError out of the `with` block, before the Event is cleared.
get_pictures_get_picture(t) ==
  /\ pc[t] = "collect_get_picture"
  /\ IF PictureFound(arg[t], "LEFT") /\ PictureFound(arg[t], "RIGHT")
       THEN /\ Stay(t, "collect_clear")
            /\ UNCHANGED light_type_lock
       ELSE /\ Leave(t, "PictureNotFoundError")
            /\ light_type_lock' = NoThread
  /\ UNCHANGED << cameras_ready, cameras_ready_lock, global_trigger_lock,
                  light_type, pictures_available, pictures_dir >>

\* Mutant: the Event is not cleared.
get_pictures_keep(t) ==
  /\ pc[t] = "collect_clear"
  /\ light_type_lock' = NoThread
  /\ Leave(t, OK)
  /\ UNCHANGED << cameras_ready, cameras_ready_lock, global_trigger_lock,
                  light_type, pictures_available, pictures_dir >>

\* Mutant: the Event of the light type selected is cleared.
get_pictures_clear_current(t) ==
  /\ pc[t] = "collect_clear"
  /\ pictures_available' = [pictures_available EXCEPT ![light_type] = FALSE]
  /\ light_type_lock' = NoThread
  /\ Leave(t, OK)
  /\ UNCHANGED << cameras_ready, cameras_ready_lock, global_trigger_lock,
                  light_type, pictures_dir >>

\* `pictures_available.clear()`, the lock is released, and (after a sleep
\* that touches no state) collect_pictures returns the pictures.
get_pictures_clear(t) ==
  /\ pc[t] = "collect_clear"
  /\ pictures_available' = [pictures_available EXCEPT ![event[t]] = FALSE]
  /\ light_type_lock' = NoThread
  /\ Leave(t, OK)
  /\ UNCHANGED << cameras_ready, cameras_ready_lock, global_trigger_lock,
                  light_type, pictures_dir >>

collect_pictures(t) ==
  \/ collect_pictures_call(t)
  \/ collect_pictures_ready(t)
  \/ get_pictures_acquire(t)
  \/ get_pictures_get_event(t)
  \/ get_pictures_get_picture(t)
  \/ get_pictures_clear(t)

\* One step of thread t in some method of the controller.
Step(t) ==
  \/ open_cameras(t)
  \/ set_light_type(t)
  \/ trigger(t)
  \/ collect_pictures(t)

\* ------------------------------------------------- PicturesBatchService.run
\* Mutant: the request put last is taken first.
pictures_run_get_newest ==
  /\ pictures_run.pc = "empty"
  /\ surface_queue # << >>
  /\ pictures_run' = [ pc |-> "take_pictures", calls |-> 0,
                       surface_data |-> surface_queue[Len(surface_queue)] ]
  /\ surface_queue' = SubSeq(surface_queue, 1, Len(surface_queue) - 1)
  /\ deliveries' =
       IF deliveries.on
         THEN [deliveries EXCEPT
                 !.taken = Append(@, surface_queue[Len(surface_queue)])]
         ELSE deliveries
  /\ UNCHANGED << ctrl_vars, thread_vars, pre, scenario, outstanding,
                  selections, velocity_queue, surface_vars, test, fifo >>

\* `if not self.queue.empty():` ... `surface_data = self.queue.get()`, and
\* take_pictures begins; while the queue is empty the loop spins.
pictures_run_get ==
  /\ pictures_run.pc = "empty"
  /\ surface_queue # << >>
  /\ pictures_run' = [ pc |-> "take_pictures", calls |-> 0,
                       surface_data |-> Head(surface_queue) ]
  /\ surface_queue' = Tail(surface_queue)
  /\ deliveries' =
       IF deliveries.on
         THEN [deliveries EXCEPT !.taken = Append(@, Head(surface_queue))]
         ELSE deliveries
  /\ UNCHANGED << ctrl_vars, thread_vars, pre, scenario, outstanding,
                  selections, velocity_queue, surface_vars, test, fifo >>

\* `asyncio.run(self.post_pictures_data(pictures, surface_data))`: the status
\* is logged, with a warning unless it is 201; an unreachable collaborator
\* makes aiohttp raise, nothing catches it, and the thread ends.
post_pictures_data ==
  /\ pictures_run.pc = "post"
  /\ \E outcome \in PostOutcomes :
       /\ pictures_run' =
            IF outcome = "unreachable"
              THEN [pictures_run EXCEPT !.pc = "crashed"]
              ELSE [pictures_run EXCEPT !.pc = "empty",
                                        !.surface_data = NoData]
       /\ deliveries' =
            IF deliveries.on /\ outcome # "unreachable"
              THEN [deliveries EXCEPT
                      !.posted = Append(@, pictures_run.surface_data)]
              ELSE deliveries
  /\ UNCHANGED << ctrl_vars, thread_vars, pre, scenario, outstanding,
                  selections, queue_vars, surface_vars, test, fifo >>

\* ------------------------------------------------ VelocitySensorService.run
\* One iteration: read the sensor, put the sample on the queue, sleep.
velocity_put ==
  /\ Len(velocity_queue) < MaxQueue
  /\ \E velocity \in Velocities :
       velocity_queue' = Append(velocity_queue, velocity)
  /\ fifo' = [fifo EXCEPT !.put = @ + 1, !.queued = Append(@, fifo.put + 1)]
  /\ UNCHANGED << cameras_vars, test, surface_queue, surface_vars >>

\* --------------------------------------------------- the signal conditioner
\* np.percentile(data, q), linear interpolation between the two order
\* statistics around the virtual index (n - 1) * q / 100.
percentile(data, q) ==
  LET sorted == SortSeq(data, RLt)
      index == Rat((Len(data) - 1) * q, 100)
      below == RFloor(index)
      fraction == RSub(index, Float(below))
      lower == sorted[below + 1]
  IN  IF fraction.n = 0
        THEN lower
        ELSE RAdd(lower, RMul(fraction, RSub(sorted[below + 2], lower)))

\* Mutant: values on a bound are retained.
filter_outliers_iqr_inclusive(data) ==
  LET q1 == percentile(data, 25)
      q3 == percentile(data, 75)
      iqr == RSub(q3, q1)
      lower_bound == RSub(q1, RMul(Rat(3, 2), iqr))
      upper_bound == RAdd(q3, RMul(Rat(3, 2), iqr))
  IN  SelectSeq(data, LAMBDA value :
                        RLe(lower_bound, value) /\ RLe(value, upper_bound))

\* Mutant: samples with no spread are all retained.
filter_outliers_iqr_degenerate(data) ==
  LET q1 == percentile(data, 25)
      q3 == percentile(data, 75)
      iqr == RSub(q3, q1)
      lower_bound == RSub(q1, RMul(Rat(3, 2), iqr))
      upper_bound == RAdd(q3, RMul(Rat(3, 2), iqr))
  IN  IF iqr = Float(0)
        THEN data
        ELSE SelectSeq(data, LAMBDA value :
                               RLt(lower_bound, value) /\ RLt(value, upper_bound))

\* SurfaceMovementService.__filter_outliers_iqr
filter_outliers_iqr(data) ==
  LET q1 == percentile(data, 25)
      q3 == percentile(data, 75)
      iqr == RSub(q3, q1)
      lower_bound == RSub(q1, RMul(Rat(3, 2), iqr))
      upper_bound == RAdd(q3, RMul(Rat(3, 2), iqr))
  IN  SelectSeq(data, LAMBDA value :
                        RLt(lower_bound, value) /\ RLt(value, upper_bound))

\* data_series.rolling(window=window_size).mean(): NaN until the window is
\* full, then the mean of the last window_size values.
rolling_mean(data, window_size) ==
  [ i \in 1 .. Len(data) |->
      IF i < window_size
        THEN NaN
        ELSE RDiv(RSum(SubSeq(data, i - window_size + 1, i)), window_size) ]

\* SurfaceMovementService.__filter_moving_average; `moving_average[window_size:]`
\* is the series from (0-based) position window_size on.
filter_moving_average(data) ==
  LET window_size == MOVING_AVERAGE_FILTER_WINDOW_SIZE
      moving_average == rolling_mean(data, window_size)
  IN  SubSeq(moving_average, window_size + 1, Len(moving_average))

\* Mutant: the speed, whatever the direction, is averaged.
measure_velocity_magnitude(vs) ==
  IF vs = << >>
    THEN Float(0)
    ELSE RDiv(RSum([i \in 1 .. Len(vs) |-> Rat(Abs(vs[i].n), vs[i].d)]),
              Len(vs))

\* SurfaceMovementService.measure_velocity
measure_velocity(vs) ==
  IF vs = << >> THEN Float(0) ELSE RDiv(RSum(vs), Len(vs))

\* Mutant: the time is left in seconds.
measure_displacement_seconds(velocity, n) ==
  LET time_ == RDiv(Float(n), SAMPLE_RATE)
  IN  RMul(velocity, time_)

\* SurfaceMovementService.measure_displacement
measure_displacement(velocity, n) ==
  LET time_ == RDiv(RDiv(Float(n), SAMPLE_RATE), 60)
  IN  RMul(velocity, time_)

\* ---------------------------------------------- SurfaceMovementService.run
SurfaceGoto(label) == surface_pc' = label

\* Mutant: with nothing queued the cycle waits for one sample.
get_clean_velocity_data_qsize_wait ==
  /\ surface_pc = "qsize"
  /\ samples' = IF Len(velocity_queue) = 0 THEN 1 ELSE Len(velocity_queue)
  /\ raw_velocities' = << >>
  /\ fifo' = [fifo EXCEPT !.drained = << >>, !.equal = TRUE]
  /\ SurfaceGoto("get")
  /\ UNCHANGED << cameras_vars, test, queue_vars, displacement_to_threshold,
                  velocities, surface_data, cycles, cycle, totals >>

\* get_clean_velocity_data: `samples = self.velocity_queue.qsize()`, and the
\* early `return [], 0` when there are none.
get_clean_velocity_data_qsize ==
  /\ surface_pc = "qsize"
  /\ samples' = Len(velocity_queue)
  /\ raw_velocities' = << >>
  /\ IF Len(velocity_queue) = 0
       THEN velocities' = << >> /\ SurfaceGoto("measure")
       ELSE UNCHANGED velocities /\ SurfaceGoto("get")
  /\ fifo' = [fifo EXCEPT !.drained = << >>, !.equal = TRUE]
  /\ UNCHANGED << cameras_vars, test, queue_vars, displacement_to_threshold,
                  surface_data, cycles, cycle, totals >>

\* s without its i-th element.
Remove(s, i) == SubSeq(s, 1, i - 1) \o SubSeq(s, i + 1, Len(s))

\* The sample at position i of the queue is taken: its serial number goes
\* from the queued to the drained ones, and its value is compared with the
\* ones taken before it.
Taken(i) ==
  [fifo EXCEPT !.got = @ + 1,
               !.queued = Remove(@, i),
               !.drained = Append(@, fifo.queued[i]),
               !.equal = /\ @
                         /\ \A j \in DOMAIN raw_velocities :
                              raw_velocities[j] = velocity_queue[i]]

\* Mutant: the newest sample is taken first.
get_clean_velocity_data_get_newest ==
  /\ surface_pc = "get"
  /\ Len(raw_velocities) < samples
  /\ velocity_queue # << >>
  /\ LET newest == Len(velocity_queue)
     IN  /\ raw_velocities' = Append(raw_velocities, velocity_queue[newest])
         /\ velocity_queue' = Remove(velocity_queue, newest)
         /\ fifo' = Taken(newest)
  /\ UNCHANGED << cameras_vars, test, surface_queue,
                  displacement_to_threshold, surface_pc, samples, velocities,
                  surface_data, cycles, cycle, totals >>

\* One `self.velocity_queue.get()` of the list comprehension; it blocks while
\* the queue is empty.
get_clean_velocity_data_get ==
  /\ surface_pc = "get"
  /\ Len(raw_velocities) < samples
  /\ velocity_queue # << >>
  /\ raw_velocities' = Append(raw_velocities, Head(velocity_queue))
  /\ velocity_queue' = Tail(velocity_queue)
  /\ fifo' = Taken(1)
  /\ UNCHANGED << cameras_vars, test, surface_queue,
                  displacement_to_threshold, surface_pc, samples, velocities,
                  surface_data, cycles, cycle, totals >>

\* The two filters, and `return velocities, samples`: the local
\* `raw_velocities` is gone.
get_clean_velocity_data_filter ==
  /\ surface_pc = "get"
  /\ Len(raw_velocities) = samples
  /\ velocities' = filter_moving_average(filter_outliers_iqr(raw_velocities))
  /\ raw_velocities' = << >>
  /\ SurfaceGoto("measure")
  /\ UNCHANGED << cameras_vars, test, fifo, queue_vars,
                  displacement_to_threshold,
                  samples, surface_data, cycles, cycle, totals >>

\* Mutant: the displacement is measured over the samples the filters kept.
run_measure_filtered ==
  /\ surface_pc = "measure"
  /\ LET velocity == measure_velocity(velocities)
         displacement == measure_displacement(velocity, Len(velocities))
         remainder == RSub(displacement_to_threshold, displacement)
     IN  /\ surface_data' = [velocity |-> velocity, displacement |-> displacement]
         /\ displacement_to_threshold' = remainder
         /\ cycle' = [after |-> remainder, puts |-> 0]
         /\ totals' = [totals EXCEPT !.displacement = RAdd(@, displacement)]
  /\ SurfaceGoto("threshold")
  /\ UNCHANGED << cameras_vars, test, fifo, queue_vars, samples, raw_velocities,
                  velocities, cycles >>

\* run(), lines 37-43: velocity, displacement, surface_data, and
\* `self.displacement_to_threshold -= displacement`.
run_measure ==
  /\ surface_pc = "measure"
  /\ LET velocity == measure_velocity(velocities)
         displacement == measure_displacement(velocity, samples)
         remainder == RSub(displacement_to_threshold, displacement)
     IN  /\ surface_data' = [velocity |-> velocity, displacement |-> displacement]
         /\ displacement_to_threshold' = remainder
         /\ cycle' = [after |-> remainder, puts |-> 0]
         /\ totals' = [totals EXCEPT !.displacement = RAdd(@, displacement)]
  /\ SurfaceGoto("threshold")
  /\ UNCHANGED << cameras_vars, test, fifo, queue_vars, samples, raw_velocities,
                  velocities, cycles >>

\* Mutant: the threshold counts as crossed only below zero.
run_threshold_strict ==
  /\ surface_pc = "threshold"
  /\ IF RLt(displacement_to_threshold, Float(0))
       THEN /\ surface_queue' = Append(surface_queue, surface_data)
            /\ displacement_to_threshold' =
                 RAdd(displacement_to_threshold, DISPLACEMENT_THRESHOLD)
            /\ cycle' = [cycle EXCEPT !.puts = @ + 1]
            /\ totals' = [totals EXCEPT !.requests = @ + 1]
       ELSE UNCHANGED << surface_queue, displacement_to_threshold, cycle,
                         totals >>
  /\ SurfaceGoto("post")
  /\ UNCHANGED << cameras_vars, test, fifo, velocity_queue, samples,
                  raw_velocities,
                  velocities, surface_data, cycles >>

\* Mutant: a crossing starts the next threshold afresh, the overshoot is lost.
run_threshold_clamped ==
  /\ surface_pc = "threshold"
  /\ IF RLe(displacement_to_threshold, Float(0))
       THEN /\ surface_queue' = Append(surface_queue, surface_data)
            /\ displacement_to_threshold' = DISPLACEMENT_THRESHOLD
            /\ cycle' = [cycle EXCEPT !.puts = @ + 1]
            /\ totals' = [totals EXCEPT !.requests = @ + 1]
       ELSE UNCHANGED << surface_queue, displacement_to_threshold, cycle,
                         totals >>
  /\ SurfaceGoto("post")
  /\ UNCHANGED << cameras_vars, test, fifo, velocity_queue, samples,
                  raw_velocities,
                  velocities, surface_data, cycles >>

\* run(), lines 45-48: `if self.displacement_to_threshold <= 0:` put the
\* request and add the threshold back.
run_threshold ==
  /\ surface_pc = "threshold"
  /\ IF RLe(displacement_to_threshold, Float(0))
       THEN /\ surface_queue' = Append(surface_queue, surface_data)
            /\ displacement_to_threshold' =
                 RAdd(displacement_to_threshold, DISPLACEMENT_THRESHOLD)
            /\ cycle' = [cycle EXCEPT !.puts = @ + 1]
            /\ totals' = [totals EXCEPT !.requests = @ + 1]
       ELSE UNCHANGED << surface_queue, displacement_to_threshold, cycle,
                         totals >>
  /\ SurfaceGoto("post")
  /\ UNCHANGED << cameras_vars, test, fifo, velocity_queue, samples,
                  raw_velocities,
                  velocities, surface_data, cycles >>

\* run(), line 50: `asyncio.run(self.post_surface_data(surface_data))`.  The
\* status is logged whatever it is; an unreachable collaborator makes aiohttp
\* raise, nothing catches it, and run() - the thread - ends.
post_surface_data ==
  /\ surface_pc = "post"
  /\ \E outcome \in PostOutcomes :
       IF outcome = "unreachable"
         THEN SurfaceGoto("crashed")
         ELSE SurfaceGoto("sleep")
  /\ UNCHANGED << cameras_vars, test, fifo, queue_vars,
                  displacement_to_threshold,
                  samples, raw_velocities, velocities, surface_data, cycles,
                  cycle, totals >>

\* run(), line 52: the sleep, and the next iteration of `while True`.
run_sleep ==
  /\ surface_pc = "sleep"
  /\ cycles < MaxCycles
  /\ cycles' = cycles + 1
  /\ SurfaceGoto("qsize")
  /\ UNCHANGED << cameras_vars, test, fifo, queue_vars,
                  displacement_to_threshold,
                  samples, raw_velocities, velocities, surface_data, cycle,
                  totals >>

\* ------------------------------------------- the static methods, called alone
\* Everything but `test`.
app_vars == << cameras_vars, queue_vars, surface_vars, fifo >>

\* tests.py, test_measure_velocity*: `SurfaceMovementService.measure_velocity(
\* velocities)`.
test_measure_velocity ==
  /\ test.function = "measure_velocity" /\ ~test.done
  /\ test' = [test EXCEPT !.done = TRUE,
                          !.returned_float = measure_velocity(test.data)]
  /\ UNCHANGED app_vars

\* tests.py, test_measure_displacement.
test_measure_displacement ==
  /\ test.function = "measure_displacement" /\ ~test.done
  /\ test' = [test EXCEPT
                !.done = TRUE,
                !.returned_float =
                   measure_displacement(test.velocity, test.samples)]
  /\ UNCHANGED app_vars

\* `self.__filter_outliers_iqr(raw_velocities)`, line 60, on a list of its own.
call_filter_outliers_iqr ==
  /\ test.function = "filter_outliers_iqr" /\ ~test.done
  /\ test' = [test EXCEPT !.done = TRUE,
                          !.returned_list = filter_outliers_iqr(test.data)]
  /\ UNCHANGED app_vars

\* `self.__filter_moving_average(filtered_velocities)`, line 61, likewise.
call_filter_moving_average ==
  /\ test.function = "filter_moving_average" /\ ~test.done
  /\ test' = [test EXCEPT !.done = TRUE,
                          !.returned_list = filter_moving_average(test.data)]
  /\ UNCHANGED app_vars

\* ---------------------------------------------------------- specifications
\* One caller: the methods run one after the other.
Next == Step(MainThread)

Spec == Init /\ [][Next]_vars

\* NumThreads callers, interleaved at every step.
NextThreads == \E t \in Threads : Step(t)

SpecThreads == InitConcurrent /\ [][NextThreads]_vars

\* The same callers as capture drivers, their selections recorded.
SpecDrivers == InitDrivers /\ [][NextThreads]_vars

\* A thread inside a method goes on: it runs when the lock it waits for, if
\* any, is free.
Proceed(t) == pc[t] # "idle" /\ Step(t)

\* Threads are scheduled, sleeps end, and a thread waiting for a lock that
\* is released again and again gets it in the end.
Fairness == \A t \in Threads : SF_vars(Proceed(t))

SpecThreadsFair == InitContended /\ [][NextThreads]_vars /\ Fairness

\* The velocity worker and the surface worker.
NextSurface ==
  \/ velocity_put
  \/ get_clean_velocity_data_qsize
  \/ get_clean_velocity_data_get
  \/ get_clean_velocity_data_filter
  \/ run_measure
  \/ run_threshold
  \/ post_surface_data
  \/ run_sleep

SpecSurface == InitWorkers /\ [][NextSurface]_vars

\* The pictures worker with its own controller: between the get and the post
\* its thread makes the calls of take_pictures.
NextPictures ==
  \/ pictures_run_get
  \/ Step(MainThread)
  \/ post_pictures_data

SpecPictures == InitPictures /\ [][NextPictures]_vars

\* The pictures worker is a thread of its own and the only user of its
\* controller: it is scheduled, its sleeps end and its locks are free.
SpecPicturesFair == SpecPictures /\ WF_vars(NextPictures)

\* The static methods of SurfaceMovementService, each called on its own.
NextTests ==
  \/ test_measure_velocity
  \/ test_measure_displacement
  \/ call_filter_outliers_iqr
  \/ call_filter_moving_average

SpecTests == InitTests /\ [][NextTests]_vars

\* ================================================================== claims
\* The caller of Spec is back from a call of method `op`.
Returned(op) == pc[MainThread] = "idle" /\ pre.op = op

\* Nothing of the synchronizer differs from what it was when the call began.
SameAsPre ==
  /\ cameras_ready = pre.cameras_ready
  /\ light_type = pre.light_type
  /\ pictures_available = pre.pictures_available

\* Both image files of a light type are on disk.
PicturesPresent(light) ==
  \A position \in CameraPosition : << light, position >> \in pictures_dir

\* C1 - trigger is consumable: a trigger() called while the cameras are
\* ready, light type L is selected and L's pictures are still pending raises
\* TriggerFailedError and changes nothing: L's flag stays set, the other flag,
\* the selection and the readiness are as before, and exactly one exposure of
\* L stays outstanding (the second trigger is neither queued nor overwrites).
C1_TriggerIsConsumable ==
  \A L \in LightType :
    ( /\ Returned("trigger")
      /\ pre.cameras_ready
      /\ pre.light_type = L
      /\ pre.pictures_available[L] )
    => /\ result[MainThread] = "TriggerFailedError"
       /\ SameAsPre
       /\ pictures_available[L]
       /\ outstanding[L] = 1

C1_Witness ==
  /\ Returned("trigger")
  /\ pre.cameras_ready
  /\ pre.light_type = "BLUE"
  /\ pre.pictures_available["BLUE"]
  /\ pre.prev_op = "trigger"
  /\ pre.prev_result = OK
  /\ result[MainThread] = "TriggerFailedError"

\* C2 - a collect_pictures(L) called while the cameras are ready and L's flag
\* is clear (never triggered, or already collected) raises
\* PicturesNotAvailableError and changes no flag and not the selection.
C2_CollectWithoutTrigger ==
  \A L \in LightType :
    ( /\ Returned("collect_pictures")
      /\ pre.arg = L
      /\ pre.cameras_ready
      /\ ~pre.pictures_available[L] )
    => /\ result[MainThread] = "PicturesNotAvailableError"
       /\ pictures_available = pre.pictures_available
       /\ light_type = pre.light_type

\* A second collect right after a successful one.
C2_Witness ==
  /\ Returned("collect_pictures")
  /\ pre.cameras_ready
  /\ pre.prev_op = "collect_pictures"
  /\ pre.prev_result = OK
  /\ ~pre.pictures_available[pre.arg]
  /\ result[MainThread] = "PicturesNotAvailableError"

\* C3 - with the cameras ready, L selected and L's flag clear, trigger()
\* succeeds and sets L's flag; the collect_pictures(L) that follows it
\* immediately, the image files of L being present, succeeds and leaves L's
\* flag clear.
C3_TriggerThenCollect ==
  \A L \in LightType :
    /\ ( /\ Returned("trigger")
         /\ pre.cameras_ready
         /\ pre.light_type = L
         /\ ~pre.pictures_available[L] )
       => /\ result[MainThread] = OK
          /\ pictures_available[L]
    /\ ( /\ Returned("collect_pictures")
         /\ pre.arg = L
         /\ pre.prev_op = "trigger"
         /\ pre.prev_result = OK
         /\ pre.light_type = L
         /\ PicturesPresent(L) )
       => /\ result[MainThread] = OK
          /\ ~pictures_available[L]

C3_Witness ==
  /\ Returned("collect_pictures")
  /\ pre.arg = "GREEN"
  /\ pre.prev_op = "trigger"
  /\ pre.prev_result = OK
  /\ pre.light_type = "GREEN"
  /\ PicturesPresent("GREEN")
  /\ result[MainThread] = OK
  /\ ~pictures_available["GREEN"]

\* C4 - cross-condition independence: a trigger() run while A is selected and
\* a collect_pictures(A), whatever their outcome, leave the flag of the other
\* light type B as it was; collect_pictures(A) does not change the selection,
\* and it succeeds whenever A is pending and A's files are present, whichever
\* light type is selected.
C4_CrossConditionIndependence ==
  \A A \in LightType : \A B \in LightType \ {A} :
    /\ ( Returned("trigger") /\ pre.light_type = A )
       => pictures_available[B] = pre.pictures_available[B]
    /\ ( Returned("collect_pictures") /\ pre.arg = A )
       => /\ pictures_available[B] = pre.pictures_available[B]
          /\ light_type = pre.light_type
    /\ ( /\ Returned("collect_pictures")
         /\ pre.arg = A
         /\ pre.cameras_ready
         /\ pre.pictures_available[A]
         /\ PicturesPresent(A) )
       => /\ result[MainThread] = OK
          /\ ~pictures_available[A]

\* BLUE collected while GREEN is selected and pending: GREEN stays pending.
C4_Witness ==
  /\ Returned("collect_pictures")
  /\ pre.arg = "BLUE"
  /\ pre.light_type = "GREEN"
  /\ pre.pictures_available["GREEN"]
  /\ result[MainThread] = OK
  /\ pictures_available["GREEN"]
  /\ ~pictures_available["BLUE"]

\* C5 - readiness gate: while the cameras are not ready, set_light_type,
\* trigger and collect_pictures raise CamerasNotReadyError (and no other
\* error) and change neither the selection nor a flag; once they are ready,
\* none of them raises CamerasNotReadyError.
C5_ReadinessGate ==
  \A op \in {"set_light_type", "trigger", "collect_pictures"} :
    Returned(op) =>
      /\ ~pre.cameras_ready =>
           /\ result[MainThread] = "CamerasNotReadyError"
           /\ SameAsPre
      /\ pre.cameras_ready => result[MainThread] # "CamerasNotReadyError"

C5_Witness ==
  /\ Returned("trigger")
  /\ ~pre.cameras_ready
  /\ result[MainThread] = "CamerasNotReadyError"
  /\ light_type = None

\* C6 - at most one outstanding exposure per light type under any
\* interleaving: successful triggers minus successful collects is 0 or 1 for
\* each light type.
C6_AtMostOneOutstanding ==
  \A L \in LightType : outstanding[L] \in {0, 1}

\* Two threads are inside collect_pictures for the same pending light type.
C6_Witness ==
  \E t1 \in Threads : \E t2 \in Threads \ {t1} :
    /\ pc[t1] = "collect_clear"
    /\ pc[t2] = "collect_acquire"
    /\ arg[t1] = arg[t2]
    /\ outstanding[arg[t1]] = 1

\* C7 - readiness is one-way: false initially, and no step of any method,
\* failing ones and repeated open_cameras() included, makes it false again.
C7_ReadinessOneWay ==
  /\ ~cameras_ready
  /\ [][cameras_ready => cameras_ready']_vars

\* open_cameras() runs again on cameras that are ready.
C7_Witness ==
  /\ cameras_ready
  /\ \E t \in Threads : pc[t] = "open_sleep"

\* C8 - end-to-end scenario on a fresh controller whose image files are
\* present: open_cameras, set_light_type(BLUE), trigger, set_light_type(GREEN),
\* trigger all succeed and leave both flags set; collect_pictures(BLUE)
\* succeeds and clears BLUE's flag while GREEN's stays set;
\* collect_pictures(GREEN) succeeds and leaves both flags clear.
C8_EndToEndScenario ==
  ( /\ pc[MainThread] = "idle"
    /\ pictures_dir = PictureFiles
    /\ scenario \in 1 .. Len(ScenarioCalls) )
  => /\ result[MainThread] = OK
     /\ scenario = 5 =>
          pictures_available["BLUE"] /\ pictures_available["GREEN"]
     /\ scenario = 6 =>
          ~pictures_available["BLUE"] /\ pictures_available["GREEN"]
     /\ scenario = 7 =>
          ~pictures_available["BLUE"] /\ ~pictures_available["GREEN"]

C8_Witness ==
  /\ pc[MainThread] = "idle"
  /\ pictures_dir = PictureFiles
  /\ scenario = Len(ScenarioCalls)
  /\ result[MainThread] = OK

\* The method whose step takes thread t from pc[t] to pc'[t].
StepOf(t) == IF pc[t] = "idle" THEN OpAt(pc'[t]) ELSE OpAt(pc[t])

\* C9 - only valid transitions change pending state: both flags are clear
\* initially; a flag goes clear->set only in a trigger() that succeeds for
\* that light type and set->clear only in a collect_pictures() that succeeds
\* for that light type; no step of set_light_type or open_cameras changes a
\* flag, and set_light_type changes nothing but the selected light type.
C9_OnlyValidTransitions ==
  /\ \A L \in LightType : ~pictures_available[L]
  /\ [][ /\ \A L \in LightType :
              /\ (~pictures_available[L] /\ pictures_available'[L]) =>
                   \E t \in Threads :
                     /\ pc[t] = "trigger_set" /\ light_type = L
                     /\ pc'[t] = "idle" /\ result'[t] = OK
              /\ (pictures_available[L] /\ ~pictures_available'[L]) =>
                   \E t \in Threads :
                     /\ pc[t] = "collect_clear" /\ arg[t] = L
                     /\ pc'[t] = "idle" /\ result'[t] = OK
         /\ \A t \in Threads :
              /\ (pc'[t] # pc[t]
                    /\ StepOf(t) \in {"set_light_type", "open_cameras"})
                   => pictures_available' = pictures_available
              /\ (pc'[t] # pc[t] /\ StepOf(t) = "set_light_type")
                   => cameras_ready' = cameras_ready
              /\ (pc'[t] # pc[t] /\ StepOf(t) # "set_light_type")
                   => light_type' = light_type
       ]_vars

\* set_light_type is about to write while BLUE is pending and GREEN is not.
C9_Witness ==
  /\ pictures_available["BLUE"]
  /\ ~pictures_available["GREEN"]
  /\ light_type = "BLUE"
  /\ \E t \in Threads : pc[t] = "set_write" /\ arg[t] = "GREEN"

\* C10 - in each cycle of the surface loop a capture request is put on
\* surface_queue if and only if the remainder, after that cycle's displacement
\* was subtracted, is <= 0 (0 included); never more than one request per
\* cycle; and the threshold is added back once in such a cycle and not at all
\* in any other.
C10_CaptureDueIffThresholdCrossed ==
  IF surface_pc = "threshold"
    THEN /\ cycle.puts = 0
         /\ displacement_to_threshold = cycle.after
    ELSE /\ cycle.puts \in {0, 1}
         /\ cycle.puts = 1 <=> RLe(cycle.after, Float(0))
         /\ displacement_to_threshold =
              IF RLe(cycle.after, Float(0))
                THEN RAdd(cycle.after, DISPLACEMENT_THRESHOLD)
                ELSE cycle.after

\* A cycle's displacement brings the remainder to exactly 0: the request is
\* put and the remainder is the full threshold again.
C10_Witness ==
  /\ surface_pc = "post"
  /\ cycle.after = Float(0)
  /\ cycle.puts = 1
  /\ surface_queue # << >>
  /\ surface_queue[Len(surface_queue)] = surface_data
  /\ displacement_to_threshold = DISPLACEMENT_THRESHOLD

\* C11 - overshoot is carried, never clamped: at every point of the surface
\* loop the remainder equals THRESHOLD - (the sum of the displacements of the
\* cycles so far, of either sign) + THRESHOLD * (the number of capture
\* requests put so far), every request put being on surface_queue.
C11_OvershootCarried ==
  /\ totals.requests = Len(surface_queue)
  /\ displacement_to_threshold =
       RAdd(RSub(DISPLACEMENT_THRESHOLD, totals.displacement),
            RMul(DISPLACEMENT_THRESHOLD, Float(totals.requests)))

\* A first cycle of 30 cm: capture due, remainder 22.5 - 30 + 22.5 = 15; then
\* a cycle of -7.5 cm raises the remainder to 22.5 and requests nothing.
C11_Witness ==
  /\ surface_pc = "post"
  /\ cycles = 2
  /\ surface_data.displacement = Rat(-15, 2)
  /\ totals.displacement = Rat(45, 2)
  /\ totals.requests = 1
  /\ cycle.puts = 0
  /\ displacement_to_threshold = Rat(45, 2)

\* C12 - a cycle that finds the velocity queue empty: conditioning returns no
\* velocities and sample count 0 at once, the cycle's velocity is 0.0 and its
\* displacement 0, the subtraction leaves the remainder as it was, and while
\* the cycle lasts no sample is taken from the queue (one that arrives
\* meanwhile stays queued).
C12_EmptyQueueCycle ==
  [][ /\ ( /\ surface_pc = "qsize" /\ surface_pc' # "qsize"
           /\ velocity_queue = << >> )
         => /\ surface_pc' = "measure"
            /\ samples' = 0
            /\ velocities' = << >>
            /\ velocity_queue' = << >>
      /\ ( /\ surface_pc = "measure" /\ surface_pc' # "measure"
           /\ samples = 0 )
         => /\ surface_data' = [velocity |-> Float(0), displacement |-> Float(0)]
            /\ displacement_to_threshold' = displacement_to_threshold
      /\ ( samples = 0 /\ surface_pc # "qsize" )
         => /\ Len(velocity_queue') >= Len(velocity_queue)
            /\ raw_velocities' = << >>
    ]_vars

\* The second cycle found the queue empty: the remainder is the 15 cm the
\* first cycle left, and a sample that arrived since is still queued.
C12_Witness ==
  /\ surface_pc = "threshold"
  /\ cycles = 2
  /\ samples = 0
  /\ surface_data = NoData
  /\ velocity_queue # << >>
  /\ cycle.after = Float(15)
  /\ displacement_to_threshold = Float(15)

\* The static method `f` was called on its own and has returned.
Tested(f) == test.function = f /\ test.done

\* s can be had from t by deleting elements.
RECURSIVE IsSubsequence(_, _)
IsSubsequence(s, t) ==
  \/ s = << >>
  \/ /\ t # << >>
     /\ \/ Head(s) = Head(t) /\ IsSubsequence(Tail(s), Tail(t))
        \/ IsSubsequence(s, Tail(t))

\* How many times v occurs in s.
Count(v, s) == Cardinality({ i \in DOMAIN s : s[i] = v })

\* C13 - for every non-empty list the outlier filter returns exactly the
\* values v of the list with Q1 - 1.5*IQR < v < Q3 + 1.5*IQR, as often as and
\* in the order in which the list has them, Q1, Q3 and IQR being those of the
\* list itself; a value equal to a bound is dropped.
C13_OutlierFilterInterior ==
  Tested("filter_outliers_iqr") =>
    LET data == test.data
        Q1 == percentile(data, 25)
        Q3 == percentile(data, 75)
        IQR == RSub(Q3, Q1)
        low == RSub(Q1, RDiv(RMul(Float(3), IQR), 2))
        high == RAdd(Q3, RDiv(RMul(Float(3), IQR), 2))
        Interior(v) == RLt(low, v) /\ RLt(v, high)
    IN  /\ data # << >>
        /\ IsSubsequence(test.returned_list, data)
        /\ \A v \in TestValues :
             Count(v, test.returned_list) =
               IF Interior(v) THEN Count(v, data) ELSE 0

\* Of 30, 100, 10, 20 (Q1 17.5, Q3 47.5, bounds -27.5 and 92.5) the 100 goes
\* and the rest stays as it came.
C13_Witness ==
  /\ Tested("filter_outliers_iqr")
  /\ test.data = << Float(30), Float(100), Float(10), Float(20) >>
  /\ test.returned_list = << Float(30), Float(10), Float(20) >>

\* C14 - measure_velocity returns the arithmetic mean of its list, 0.0 for
\* the empty list, negative and zero values counting like any other:
\* [10,20,30] gives 20.0, [] gives 0.0, [-10,0,10] gives 0.0.
C14_MeasureVelocityIsMean ==
  Tested("measure_velocity") =>
    /\ test.data = << >> => test.returned_float = Float(0)
    /\ test.data # << >> =>
         RMul(test.returned_float, Float(Len(test.data))) = RSum(test.data)
    /\ test.data = << Float(10), Float(20), Float(30) >> =>
         test.returned_float = Float(20)
    /\ test.data = << Float(-10), Float(0), Float(10) >> =>
         test.returned_float = Float(0)

C14_Witness ==
  /\ Tested("measure_velocity")
  /\ test.data = << Float(-10), Float(0), Float(10) >>
  /\ test.returned_float = Float(0)

\* C15 - measure_displacement(velocity, samples) is velocity * (samples /
\* SAMPLE_RATE / 60) with SAMPLE_RATE = 50: 0 for no samples, of the sign of
\* the velocity otherwise; 50 cm/min over 100 samples is 5/3 cm.
C15_MeasureDisplacement ==
  Tested("measure_displacement") =>
    /\ RMul(test.returned_float, Float(50 * 60)) =
         RMul(test.velocity, Float(test.samples))
    /\ test.samples = 0 => test.returned_float = Float(0)
    /\ test.samples > 0 =>
         /\ test.velocity.n > 0 <=> test.returned_float.n > 0
         /\ test.velocity.n < 0 <=> test.returned_float.n < 0
    /\ (test.velocity = Float(50) /\ test.samples = 100) =>
         test.returned_float = Rat(5, 3)

C15_Witness ==
  /\ Tested("measure_displacement")
  /\ test.velocity = Float(50)
  /\ test.samples = 100
  /\ test.returned_float = Rat(5, 3)

\* C17 - moving-average smoothing with window 3 returns the averages of all
\* fully populated windows, in order: n - 2 values for a list of n >= 3
\* values, the i-th being the mean of values i .. i+2, and none for n < 3.
C17_MovingAverageFullWindows ==
  Tested("filter_moving_average") =>
    LET n == Len(test.data)
        window == MOVING_AVERAGE_FILTER_WINDOW_SIZE
    IN  test.returned_list =
          IF n >= window
            THEN [ i \in 1 .. n - (window - 1) |->
                     RDiv(RSum(SubSeq(test.data, i, i + window - 1)), window) ]
            ELSE << >>

\* C16 - an error the controller raises during a capture cycle
\* (TriggerFailedError, PicturesNotAvailableError, PictureNotFoundError,
\* LightTypeNotDefinedError) aborts that cycle only: the pictures worker is
\* not ended by it but is back polling, or at work on the next request.
C16_ErrorAbortsOnlyTheCycle ==
  result[MainThread] \in
      { "TriggerFailedError", "PicturesNotAvailableError",
        "PictureNotFoundError", "LightTypeNotDefinedError" }
    => pictures_run.pc \in { "empty", "take_pictures" }

\* Thread t holds lock `lock`.
Holds(t, lock) == lock = t

ReadinessChecks == { "set_ready", "trigger_ready", "collect_ready" }

\* C19 - open_cameras() holds the readiness lock from before its delay until
\* it has written _cameras_ready = True.  A readiness check cannot run while
\* an open_cameras is in progress: it blocks, and runs only when no
\* open_cameras is between its delay and its write; it lets the operation go
\* on exactly if the flag is set, and the flag is set by nothing but the step
\* that completes an open_cameras call.
C19_OpenCamerasExclusive ==
  /\ [](\A t \in Threads :
         /\ pc[t] = "open_sleep" <=> Holds(t, cameras_ready_lock)
         /\ ( /\ pc[t] \in ReadinessChecks
              /\ \E u \in Threads : pc[u] = "open_sleep" )
            => ~ENABLED Proceed(t))
  /\ [][ /\ \A t \in Threads :
              (pc[t] \in ReadinessChecks /\ pc'[t] # pc[t]) =>
                /\ \A u \in Threads : pc[u] # "open_sleep"
                /\ pc'[t] # "idle" <=> cameras_ready
                /\ pc'[t] = "idle" => result'[t] = "CamerasNotReadyError"
         /\ cameras_ready' # cameras_ready =>
              \E u \in Threads :
                /\ pc[u] = "open_sleep" /\ pc'[u] = "idle"
                /\ result'[u] = OK
                /\ cameras_ready'
                /\ cameras_ready_lock' = NoThread
       ]_vars

\* The first open_cameras is in its delay, the cameras not yet ready, and a
\* trigger waits at its readiness check.
C19_Witness ==
  \E t \in Threads : \E u \in Threads \ {t} :
    /\ pc[u] = "open_sleep"
    /\ ~cameras_ready
    /\ pc[t] = "trigger_ready"

\* The serial numbers a .. b in order.
Serials(a, b) == [ i \in 1 .. (b - a + 1) |-> a + i - 1 ]

\* C20 - the velocity queue between the velocity worker and the one surface
\* worker.  With the samples numbered as they are put, the ones a cycle has
\* taken followed by the ones queued are the numbers from that cycle's first
\* to the last one put, in order: every sample is consumed once, in FIFO
\* order, by one cycle, none lost or duplicated.  The drain never blocks, for
\* the queue holds at least the samples still to be taken; what arrives
\* during a drain stays queued; and the cycle's sample count is the number of
\* samples the cycle removed.
C20_VelocityQueueFifo ==
  /\ [](LET first == fifo.got - Len(fifo.drained) + 1
            draining == surface_pc = "get"
        IN  /\ fifo.drained \o fifo.queued = Serials(first, fifo.put)
            /\ Len(fifo.queued) = Len(velocity_queue)
            /\ draining =>
                 /\ Len(raw_velocities) = Len(fifo.drained)
                 /\ Len(fifo.drained) <= samples
                 /\ Len(velocity_queue) >= samples - Len(fifo.drained)
                 /\ Len(fifo.drained) < samples =>
                      ENABLED get_clean_velocity_data_get
            /\ (~draining /\ surface_pc # "qsize") =>
                 Len(fifo.drained) = samples)
  /\ [][ velocity_queue' # velocity_queue =>
           \/ /\ surface_pc = "get"
              /\ velocity_queue # << >>
              /\ velocity_queue' = Tail(velocity_queue)
              /\ raw_velocities' = Append(raw_velocities, Head(velocity_queue))
              /\ fifo.got' = fifo.got + 1
              /\ fifo.put' = fifo.put
           \/ /\ Len(velocity_queue') = Len(velocity_queue) + 1
              /\ SubSeq(velocity_queue', 1, Len(velocity_queue))
                   = velocity_queue
              /\ fifo.put' = fifo.put + 1
              /\ fifo.got' = fifo.got
              /\ UNCHANGED << surface_pc, samples, raw_velocities >>
       ]_vars

\* The second cycle has taken the two samples it counted, the fifth and the
\* sixth, while a seventh, put during the drain, stays queued.
C20_Witness ==
  /\ surface_pc = "get"
  /\ cycles = 2
  /\ samples = 2
  /\ fifo.drained = << 5, 6 >>
  /\ fifo.queued = << 7 >>

\* C21 - select-then-trigger is not atomic.  A trigger acts on the light type
\* that is current while it holds the light-type lock, the one the last
\* set_light_type of any thread wrote: that is the flag its success sets.
\* For a driver whose own selection is the last one written, and so for a
\* driver that is alone, this is the driver's last selection; with several
\* drivers it may be another driver's selection (C21_Witness).
C21_TriggerUsesCurrentSelection ==
  /\ [](\A t \in Threads :
         pc[t] = "trigger_set" =>
           /\ light_type_lock = t
           /\ event[t] = light_type
           /\ (t = MainThread /\ selections.last) =>
                event[t] = selections.own)
  /\ [][ /\ \A t \in Threads :
             (pc[t] = "set_write" /\ pc'[t] = "idle" /\ result'[t] = OK) =>
               light_type' = arg[t]
         /\ light_type' # light_type =>
              \E t \in Threads : pc[t] = "set_write" /\ pc'[t] = "idle"
         /\ \A t \in Threads :
             (pc[t] = "trigger_set" /\ pc'[t] = "idle") =>
               /\ result'[t] = OK
               /\ pictures_available' =
                    [pictures_available EXCEPT ![light_type] = TRUE]
               /\ (t = MainThread /\ selections.last) =>
                    selections'.flag = selections.own
       ]_vars

\* The driver MainThread selected BLUE, and its trigger has succeeded and set
\* the GREEN flag, GREEN being what another driver selected in between.
C21_Witness ==
  /\ selections.own = "BLUE"
  /\ selections.flag = "GREEN"
  /\ ~selections.last
  /\ light_type = "GREEN"
  /\ pictures_available["GREEN"]
  /\ ~pictures_available["BLUE"]
  /\ outstanding = [l \in LightType |-> IF l = "GREEN" THEN 1 ELSE 0]
  /\ result[MainThread] = OK
  /\ pc[MainThread] = "idle"

\* The flags of exactly the light types in `pending` are set.
Pending(flags, pending) == \A l \in LightType : flags[l] <=> l \in pending

\* C22 - the order of the calls in every capture cycle: open_cameras,
\* set_light_type(BLUE), trigger, set_light_type(GREEN), trigger,
\* collect_pictures(BLUE), collect_pictures(GREEN).  Every call but the first
\* of a cycle follows a call that returned normally; each trigger directly
\* follows the select of its light type, which is the current one as the
\* trigger begins; and the first collect begins after both triggers have
\* completed, the flags of both light types being set.
C22_CaptureCycleOrder ==
  pre.op # None =>
    /\ pre.op = "open_cameras" =>
         /\ pre.arg = None
         /\ pre.prev_op \in {None, "collect_pictures"}
         /\ pre.prev_result \in {None, OK}
    /\ pre.op # "open_cameras" => pre.prev_result = OK
    /\ pre.op = "set_light_type" =>
         \/ /\ pre.arg = "BLUE"
            /\ pre.prev_op = "open_cameras"
            /\ Pending(pre.pictures_available, {})
         \/ /\ pre.arg = "GREEN"
            /\ pre.prev_op = "trigger"
            /\ pre.light_type = "BLUE"
            /\ Pending(pre.pictures_available, {"BLUE"})
    /\ pre.op = "trigger" =>
         /\ pre.prev_op = "set_light_type"
         /\ \/ /\ pre.light_type = "BLUE"
               /\ Pending(pre.pictures_available, {})
            \/ /\ pre.light_type = "GREEN"
               /\ Pending(pre.pictures_available, {"BLUE"})
    /\ pre.op = "collect_pictures" =>
         \/ /\ pre.arg = "BLUE"
            /\ pre.prev_op = "trigger"
            /\ pre.light_type = "GREEN"
            /\ Pending(pre.pictures_available, {"BLUE", "GREEN"})
         \/ /\ pre.arg = "GREEN"
            /\ pre.prev_op = "collect_pictures"
            /\ Pending(pre.pictures_available, {"GREEN"})

\* The second capture cycle has made its last call, collect_pictures(GREEN),
\* after a first cycle that was delivered.
C22_Witness ==
  /\ Returned("collect_pictures")
  /\ pre.arg = "GREEN"
  /\ result[MainThread] = OK
  /\ Len(deliveries.taken) = 2
  /\ Len(deliveries.posted) = 1
  /\ deliveries.captured = 2
  /\ pictures_run.pc = "post"

\* C23 - the capture requests between the queue and the pictures worker.
\* The requests taken followed by the ones still queued are the requests that
\* were put, in order: each is taken once, in FIFO order.  A capture sequence
\* runs only for the request taken last, whose figures the worker holds; when
\* the worker polls the queue again every request taken has had exactly one
\* capture sequence and one delivery, and the deliveries carry the velocity
\* and displacement of the requests in the order taken.  Under fair
\* scheduling, unless an error ends the worker, every request is eventually
\* taken and delivered.
C23_RequestsTakenOnceInOrder ==
  /\ [](/\ deliveries.taken \o surface_queue = deliveries.requested
        /\ Len(deliveries.posted) <= deliveries.captured
        /\ deliveries.captured <= deliveries.begun
        /\ deliveries.begun <= Len(deliveries.taken)
        /\ Len(deliveries.taken) <= Len(deliveries.posted) + 1
        /\ deliveries.posted
             = SubSeq(deliveries.taken, 1, Len(deliveries.posted))
        /\ (pc[MainThread] # "idle" \/ pictures_run.pc = "post") =>
             /\ Len(deliveries.taken) = Len(deliveries.posted) + 1
             /\ pictures_run.surface_data
                  = deliveries.taken[Len(deliveries.taken)]
        /\ pictures_run.pc = "post" =>
             deliveries.captured = Len(deliveries.taken)
        /\ pictures_run.pc = "empty" =>
             /\ deliveries.begun = Len(deliveries.taken)
             /\ deliveries.captured = Len(deliveries.taken)
             /\ deliveries.posted = deliveries.taken)
  /\ <>(\/ deliveries.posted = deliveries.requested
        \/ pictures_run.pc = "crashed")

\* Two requests with different figures were queued; both have been taken,
\* captured and delivered, in the order they were put.
C23_Witness ==
  /\ Len(deliveries.requested) = 2
  /\ deliveries.requested[1] # deliveries.requested[2]
  /\ deliveries.posted = deliveries.requested
  /\ deliveries.captured = 2
  /\ surface_queue = << >>
  /\ pictures_run.pc = "empty"

\* C24 - a delivery failure, a status other than 201 or an unreachable
\* collaborator, is logged and not retried and the posting worker goes on
\* with its next cycle: the surface worker, whose run() can end for no other
\* reason, never stops, and after every post it is at its sleep.
C24_DeliveryFailureDoesNotStopWorker ==
  /\ [](surface_pc # "crashed")
  /\ [][surface_pc = "post" => surface_pc' \in {"post", "sleep"}]_vars

\* C25 - a trigger() called while the cameras are ready and no light type has
\* ever been selected raises LightTypeNotDefinedError, which is none of
\* CamerasNotReadyError, TriggerFailedError and PicturesNotAvailableError;
\* it sets no flag, changes nothing else, and leaves the global trigger lock
\* and the light-type lock released.
C25_TriggerWithoutLightType ==
  ( /\ Returned("trigger")
    /\ pre.cameras_ready
    /\ pre.light_type = None )
  => /\ result[MainThread] = "LightTypeNotDefinedError"
     /\ result[MainThread] \notin { "CamerasNotReadyError",
                                    "TriggerFailedError",
                                    "PicturesNotAvailableError" }
     /\ SameAsPre
     /\ \A l \in LightType : ~pictures_available[l] /\ outstanding[l] = 0
     /\ global_trigger_lock = NoThread
     /\ light_type_lock = NoThread
     /\ cameras_ready_lock = NoThread

\* The cameras were opened and trigger() was called next, no light type
\* selected: it raised LightTypeNotDefinedError.
C25_Witness ==
  /\ Returned("trigger")
  /\ pre.cameras_ready
  /\ pre.light_type = None
  /\ pre.prev_op = "open_cameras"
  /\ result[MainThread] = "LightTypeNotDefinedError"
  /\ global_trigger_lock = NoThread

\* C26 - the sample count get_clean_velocity_data returns is the number of
\* raw samples the cycle drained from the queue, however many of them the
\* filters discarded, all of them included; and it is over that count, at
\* SAMPLE_RATE samples a second and in minutes, that the cycle's displacement
\* is measured.
C26_SampleCountIsRawCount ==
  /\ surface_pc = "measure" =>
       /\ samples = Len(fifo.drained)
       /\ Len(velocities) <= samples
       /\ samples > 0 => Len(velocities) < samples
  /\ surface_pc \in {"threshold", "post", "sleep", "crashed"} =>
       /\ samples = Len(fifo.drained)
       /\ RMul(surface_data.displacement, Float(SAMPLE_RATE * 60))
            = RMul(surface_data.velocity, Float(Len(fifo.drained)))

\* Four samples were drained, the filters kept one value, and the
\* displacement of 30 cm is that of four samples.
C26_Witness ==
  /\ surface_pc = "threshold"
  /\ Len(fifo.drained) = 4
  /\ samples = 4
  /\ Len(velocities) = 1
  /\ surface_data.velocity = Float(22500)
  /\ surface_data.displacement = Float(30)

\* C27 - a collect_pictures(L) called while L's pictures are pending and an
\* image file of L is missing raises PictureNotFoundError, releases the
\* light-type lock and changes nothing: L's flag stays set and one exposure
\* of L stays outstanding.  A flag is cleared only by a collect_pictures of
\* its light type that succeeds, so while the file is missing the flag stays
\* set and every trigger() with L selected raises TriggerFailedError.
C27_MissingFileKeepsFlag ==
  /\ [](\A L \in LightType :
         /\ ( /\ Returned("collect_pictures")
              /\ pre.arg = L
              /\ pre.cameras_ready
              /\ pre.pictures_available[L]
              /\ ~PicturesPresent(L) )
            => /\ result[MainThread] = "PictureNotFoundError"
               /\ SameAsPre
               /\ pictures_available[L]
               /\ outstanding[L] = 1
               /\ light_type_lock = NoThread
         /\ ( /\ Returned("trigger")
              /\ pre.light_type = L
              /\ pre.pictures_available[L]
              /\ ~PicturesPresent(L) )
            => /\ result[MainThread] = "TriggerFailedError"
               /\ pictures_available[L])
  /\ [][ \A L \in LightType :
           (pictures_available[L] /\ ~pictures_available'[L]) =>
             /\ pc[MainThread] = "collect_clear"
             /\ event[MainThread] = L
             /\ arg[MainThread] = L
             /\ result'[MainThread] = OK
             /\ PicturesPresent(L)
       ]_vars

\* BLUE was triggered, its collect raised PictureNotFoundError for the
\* missing file, and the trigger() after it raised TriggerFailedError.
C27_Witness ==
  /\ Returned("trigger")
  /\ pre.prev_op = "collect_pictures"
  /\ pre.prev_result = "PictureNotFoundError"
  /\ pre.light_type = "BLUE"
  /\ pre.pictures_available["BLUE"]
  /\ ~PicturesPresent("BLUE")
  /\ result[MainThread] = "TriggerFailedError"
  /\ pictures_available["BLUE"]
  /\ light_type_lock = NoThread

\* C28 - one pictures worker owning its controller, every image file on disk:
\* both flags are clear when a take_pictures() cycle starts and when it has
\* ended, so in any number of cycles no trigger() raises TriggerFailedError
\* and no collect_pictures() raises PicturesNotAvailableError; no call of a
\* cycle raises at all.
C28_FlagsClearBetweenCycles ==
  pictures_dir = PictureFiles =>
    /\ ( \/ pictures_run.pc \in {"empty", "post"}
         \/ pictures_run.pc = "take_pictures" /\ pictures_run.calls = 0 )
       => /\ Pending(pictures_available, {})
          /\ \A l \in LightType : outstanding[l] = 0
    /\ result[MainThread] \notin { "TriggerFailedError",
                                   "PicturesNotAvailableError" }
    /\ result[MainThread] \in {None, OK}
    /\ pictures_run.pc = "crashed" => deliveries.captured = deliveries.begun

\* The second cycle has ended after a first one that was delivered: the
\* flags are clear and its last call, collect_pictures(GREEN) with GREEN
\* pending, returned normally.
C28_Witness ==
  /\ pictures_dir = PictureFiles
  /\ pictures_run.pc = "post"
  /\ deliveries.captured = 2
  /\ Len(deliveries.posted) = 1
  /\ Pending(pictures_available, {})
  /\ pre.op = "collect_pictures"
  /\ pre.pictures_available["GREEN"]
  /\ result[MainThread] = OK

\* C29 - a cycle whose n > 0 drained samples are all equal: the quartiles
\* coincide, both bounds of the outlier filter are the samples' value, and
\* the strict comparison rejects every sample.  The cycle's velocity is 0.0
\* and its displacement 0 although its sample count is n.
C29_EqualSamplesAreAllRejected ==
  (fifo.equal /\ Len(fifo.drained) > 0) =>
    /\ (surface_pc = "get" /\ Len(raw_velocities) = samples) =>
         filter_outliers_iqr(raw_velocities) = << >>
    /\ surface_pc = "measure" =>
         /\ velocities = << >>
         /\ samples = Len(fifo.drained)
    /\ surface_pc \in {"threshold", "post", "sleep", "crashed"} =>
         /\ surface_data.velocity = Float(0)
         /\ surface_data.displacement = Float(0)
         /\ samples = Len(fifo.drained)
         /\ cycle.puts = 0 => displacement_to_threshold = cycle.after

\* Four equal samples were drained, more than the moving average's window
\* needs, and the cycle measured no velocity and no displacement.
C29_Witness ==
  /\ surface_pc = "threshold"
  /\ fifo.equal
  /\ Len(fifo.drained) = 4
  /\ samples = 4
  /\ velocities = << >>
  /\ surface_data.velocity = Float(0)
  /\ surface_data.displacement = Float(0)

====
